---- MODULE Spec2Model ----
(***************************************************************************)
(* express-docker-demo: the Express server of src/index.js (GET /api/hello *)
(* and GET /db-check over a shared pg Pool) and the browser client of      *)
(* public/app.js (fetchJSON and its two targets).                          *)
(*                                                                         *)
(* Spec       : the server. Requests arrive, the handler of /db-check      *)
(*              issues its probe through the pool, the dependency answers  *)
(*              and the handler resumes and responds.                      *)
(* ClientSpec : the client. fetchJSON calls are triggered, their fetch and *)
(*              body parse settle, and the targets are rendered.           *)
(***************************************************************************)
EXTENDS Integers, Sequences, FiniteSets, TLC

VARIABLES
    dbState,    \* the dependency: healthy, unreachable, authfail or malformed
    clock,      \* the dependency's NOW(): it advances with every probe it answers
    running,    \* the Node process is alive
    reqs,       \* the GET /db-check requests, in order of arrival
    nReq,       \* how many GET /db-check requests have arrived
    pending,    \* the pool's queue of queries waiting for a client
    active,     \* the requests whose query holds a pool client
    peak,       \* the largest number of probes that were in flight together
    everUnhealthy, \* the dependency has been other than healthy at some point
    hello,      \* the last answer to GET /api/hello and what the route has done
    nodes,      \* client: the two output elements (class and text)
    calls,      \* client: the fetchJSON invocations, in order of their trigger
    escaped     \* client: an exception left fetchJSON

serverVars == <<dbState, clock, running, reqs, nReq, pending, active, peak,
                everUnhealthy, hello>>
clientVars == <<nodes, calls, escaped>>
vars == <<dbState, clock, running, reqs, nReq, pending, active, peak,
          everUnhealthy, hello, nodes, calls, escaped>>

(***************************************************************************)
(* Bounds of the model.                                                    *)
(***************************************************************************)
\* GET /db-check requests in one run
MaxReq == 3
\* clients the pool hands out at once (pg's default is 10; scaled down so
\* that a run of MaxReq requests can fill the pool)
PoolMax == 2
\* fetchJSON invocations in one run of the page, the two initial ones included
MaxCalls == 3

(***************************************************************************)
(* Configuration (src/index.js lines 17-24).                               *)
(***************************************************************************)
DB_NAME == "postgres"

(***************************************************************************)
(* JavaScript values, as far as the handlers read them.                    *)
(***************************************************************************)
JSString(s) == [t |-> "string", s |-> s, ms |-> 0]
JSDate(n) == [t |-> "date", s |-> "", ms |-> n]
JSUndefined == [t |-> "undefined", s |-> "", ms |-> 0]

\* Date.prototype.toJSON, which res.json applies to a Date
ToISOString(n) == "2024-01-01T00:00:0" \o ToString(n) \o ".000Z"

\* JSON.stringify of one value of an object
Serialize(v) == IF v.t = "date" THEN ToISOString(v.ms) ELSE v.s

\* The body res.json(obj) sends: JSON.stringify drops the keys whose value is
\* undefined and writes a Date as its ISO string.
JsonBody(obj) ==
    [k \in {j \in DOMAIN obj : obj[j].t # "undefined"} |-> Serialize(obj[k])]

NoResponse == [code |-> 0, body |-> [none |-> ""]]

(***************************************************************************)
(* What pool.query settles with.                                           *)
(***************************************************************************)
NoError == [name |-> "", message |-> ""]
Pending == [kind |-> "pending", rowsDefined |-> FALSE, rows |-> <<>>, error |-> NoError]
Resolved(rows) == [kind |-> "resolve", rowsDefined |-> TRUE, rows |-> rows, error |-> NoError]
ResolvedNoRows == [kind |-> "resolve", rowsDefined |-> FALSE, rows |-> <<>>, error |-> NoError]
Rejected(e) == [kind |-> "reject", rowsDefined |-> FALSE, rows |-> <<>>, error |-> e]

\* net.connect to a closed port of one address
ConnRefused == [name |-> "Error", message |-> "connect ECONNREFUSED 127.0.0.1:5432"]
\* net.connect to a closed port of a host with several addresses (localhost
\* as ::1 and 127.0.0.1) on Node 20: an AggregateError, whose message is empty
ConnRefusedAll == [name |-> "AggregateError", message |-> ""]
AuthFailed == [name |-> "error", message |-> "password authentication failed for user \"postgres\""]
PoolTimeout == [name |-> "Error", message |-> "timeout exceeded when trying to connect"]

DbStates == {"healthy", "unreachable", "authfail", "malformed"}

\* The outcomes of the probe SELECT NOW() AS server_time against the
\* dependency in state s at time now.
ProbeOutcomes(s, now) ==
    CASE s = "healthy" -> {Resolved(<<[server_time |-> JSDate(now)]>>)}
      [] s = "unreachable" -> {Rejected(ConnRefused), Rejected(ConnRefusedAll)}
      [] s = "authfail" -> {Rejected(AuthFailed)}
      [] s = "malformed" -> {ResolvedNoRows, Resolved(<<>>),
                             Resolved(<<[server_time |-> JSUndefined]>>)}

(***************************************************************************)
(* GET /db-check (src/index.js lines 52-67).                               *)
(***************************************************************************)
TypeErrorIndex == [name |-> "TypeError",
                   message |-> "Cannot read properties of undefined (reading '0')"]
TypeErrorField == [name |-> "TypeError",
                   message |-> "Cannot read properties of undefined (reading 'server_time')"]

\* Mutant of the try block: the database name is sent under the key db.
TryBlockWrongKey(settled) ==
    IF settled.kind = "reject"
    THEN [threw |-> TRUE, error |-> settled.error, res |-> NoResponse]
    ELSE IF ~settled.rowsDefined
    THEN [threw |-> TRUE, error |-> TypeErrorIndex, res |-> NoResponse]
    ELSE IF Len(settled.rows) = 0
    THEN [threw |-> TRUE, error |-> TypeErrorField, res |-> NoResponse]
    ELSE [threw |-> FALSE, error |-> NoError,
          res |-> [code |-> 200,
                   body |-> JsonBody([status |-> JSString("ok"),
                                      db |-> JSString(DB_NAME),
                                      serverTime |-> settled.rows[1].server_time])]]

\* Mutant of the try block: a statement after res.json throws, so that the
\* catch block runs after the ok response has been sent.
TryBlockSendThenThrow(settled) ==
    IF settled.kind = "reject"
    THEN [threw |-> TRUE, error |-> settled.error, res |-> NoResponse]
    ELSE IF ~settled.rowsDefined
    THEN [threw |-> TRUE, error |-> TypeErrorIndex, res |-> NoResponse]
    ELSE IF Len(settled.rows) = 0
    THEN [threw |-> TRUE, error |-> TypeErrorField, res |-> NoResponse]
    ELSE [threw |-> TRUE, error |-> TypeErrorField,
          res |-> [code |-> 200,
                   body |-> JsonBody([status |-> JSString("ok"),
                                      database |-> JSString(DB_NAME),
                                      serverTime |-> settled.rows[1].server_time])]]

\* The try block: await pool.query, read rows[0].server_time, res.json.
TryBlock(settled) ==
    IF settled.kind = "reject"
    THEN [threw |-> TRUE, error |-> settled.error, res |-> NoResponse]
    ELSE IF ~settled.rowsDefined
    THEN [threw |-> TRUE, error |-> TypeErrorIndex, res |-> NoResponse]
    ELSE IF Len(settled.rows) = 0
    THEN [threw |-> TRUE, error |-> TypeErrorField, res |-> NoResponse]
    ELSE [threw |-> FALSE, error |-> NoError,
          res |-> [code |-> 200,
                   body |-> JsonBody([status |-> JSString("ok"),
                                      database |-> JSString(DB_NAME),
                                      serverTime |-> settled.rows[1].server_time])]]

\* Mutants of the catch block: it throws the error again; it issues the
\* probe again instead of answering.
CatchBlockRethrow(error) ==
    [res |-> NoResponse, unhandled |-> TRUE, requery |-> FALSE]

CatchBlockRetry(error) ==
    [res |-> NoResponse, unhandled |-> FALSE, requery |-> TRUE]

\* The catch block: res.status(500).json({status: "error", message}).
CatchBlock(error) ==
    [res |-> [code |-> 500,
              body |-> JsonBody([status |-> JSString("error"),
                                 message |-> JSString(error.message)])],
     unhandled |-> FALSE,
     requery |-> FALSE]

\* The handler from the point where the probe has settled: the response it
\* sends, whether an exception leaves it (an unhandled rejection ends the
\* process) and whether it issues the probe again.
DbCheckHandler(settled) ==
    LET t == TryBlock(settled)
    IN  IF t.threw THEN CatchBlock(t.error)
        ELSE [res |-> t.res, unhandled |-> FALSE, requery |-> FALSE]

\* The number of responses the handler sends once the probe has settled: the
\* res.json of the try block if it is reached, and the res.status(500).json
\* of the catch block if the try block throws.
ResponsesSent(settled) ==
    LET t == TryBlock(settled)
    IN  (IF t.res # NoResponse THEN 1 ELSE 0)
        + (IF t.threw /\ CatchBlock(t.error).res # NoResponse THEN 1 ELSE 0)

\* Mutant of the handler: a request whose probe settles while an earlier
\* request is still waiting for its own is answered with an error.
OrderedEnvelopeFor(r, settled) ==
    LET own == DbCheckHandler(settled)
    IN  IF \E q \in DOMAIN reqs : q < r /\ reqs[q].pc \in {"pending", "active"}
        THEN [own EXCEPT !.res = [code |-> 500,
                                  body |-> JsonBody([status |-> JSString("error"),
                                                     message |-> JSString("out of order")])]]
        ELSE own

\* Mutant of the handler: once a probe has failed, its error envelope is kept
\* and sent to every later request.
StickyEnvelopeFor(r, settled) ==
    LET failed == {q \in DOMAIN reqs : reqs[q].pc = "done" /\ reqs[q].res.code = 500}
        own == DbCheckHandler(settled)
    IN  IF failed = {} THEN own
        ELSE [own EXCEPT !.res = reqs[CHOOSE q \in failed : TRUE].res]

\* The envelope request r is answered with when its probe has settled: the
\* handler keeps nothing between calls, so r's own probe decides it.
EnvelopeFor(r, settled) == DbCheckHandler(settled)

(***************************************************************************)
(* GET /api/hello (src/index.js lines 45-48).                              *)
(***************************************************************************)
Greeting == "Hello World from Dockerized Express!"

\* Mutant of the hello route: it answers 500 unless the dependency is healthy.
HelloHandlerNeedsDb(db) ==
    IF db = "healthy"
    THEN [res |-> [code |-> 200, body |-> JsonBody([message |-> JSString(Greeting)])],
          probes |-> 0]
    ELSE [res |-> [code |-> 500, body |-> JsonBody([status |-> JSString("error"),
                                                    message |-> JSString(db)])],
          probes |-> 0]

\* The response of the hello route and the number of probes it issues.
HelloHandler(db) ==
    [res |-> [code |-> 200, body |-> JsonBody([message |-> JSString(Greeting)])],
     probes |-> 0]

(***************************************************************************)
(* The pool (src/index.js lines 26-33): new Pool({host, port, user,        *)
(* password, database}). No connectionTimeoutMillis is set, so a query     *)
(* that finds every client busy waits in the pool's queue.                 *)
(***************************************************************************)
\* Mutant of the pool: it counts one client too many and refuses the query
\* that finds it full.
PoolAdmitOffByOne(act) ==
    IF Cardinality(act) + 1 < PoolMax THEN "checkout" ELSE "reject"

PoolAdmit(act) == IF Cardinality(act) < PoolMax THEN "checkout" ELSE "wait"

(***************************************************************************)
(* The server's state.                                                     *)
(***************************************************************************)
Requests == 1..MaxReq

NoRequest == [pc |-> "none", queries |-> 0, settled |-> Pending,
              res |-> NoResponse, responses |-> 0]

InFlight == {r \in Requests : reqs[r].pc \in {"pending", "active", "refused"}}
Done == {r \in Requests : reqs[r].pc = "done"}
Failed == {r \in Done : reqs[r].res.code = 500}

Max(a, b) == IF a >= b THEN a ELSE b

ServerInit ==
    /\ dbState = "healthy"
    /\ clock = 0
    /\ running = TRUE
    /\ reqs = [r \in Requests |-> NoRequest]
    /\ nReq = 0
    /\ pending = <<>>
    /\ active = {}
    /\ peak = 0
    /\ everUnhealthy = (dbState # "healthy")
    /\ hello = [res |-> NoResponse, probes |-> 0, dbAt |-> "none"]

\* A GET /db-check request arrives: the handler runs up to its await, that
\* is, it calls pool.query once.
Receive ==
    /\ running
    /\ nReq < MaxReq
    /\ LET r == nReq + 1
           admit == PoolAdmit(active)
       IN  /\ nReq' = r
           /\ reqs' = [reqs EXCEPT ![r] =
                         [pc |-> CASE admit = "checkout" -> "active"
                                   [] admit = "wait" -> "pending"
                                   [] OTHER -> "refused",
                          queries |-> 1,
                          settled |-> Pending,
                          res |-> NoResponse,
                          responses |-> 0]]
           /\ active' = IF admit = "checkout" THEN active \cup {r} ELSE active
           /\ pending' = IF admit = "wait" THEN Append(pending, r) ELSE pending
           /\ peak' = Max(peak, Cardinality(InFlight) + 1)
    /\ UNCHANGED <<dbState, clock, running, everUnhealthy, hello, clientVars>>

\* What the probe of request r can settle with now.
OutcomesFor(r) ==
    IF reqs[r].pc = "refused" THEN {Rejected(PoolTimeout)}
    ELSE ProbeOutcomes(dbState, clock)

\* The probe of request r settles with o: the pool takes its client back and
\* hands it to the query at the head of its queue, and the handler resumes
\* with o and runs to its end.
ProbeSettles(r, o) ==
    /\ running
    /\ reqs[r].pc \in {"active", "refused"}
    /\ o \in OutcomesFor(r)
    /\ LET out == EnvelopeFor(r, o)
           again == ~out.unhandled /\ out.requery
           released == active \ {r}
           queue == IF again THEN Append(pending, r) ELSE pending
           next == queue # <<>> /\ PoolAdmit(released) = "checkout"
       IN  /\ running' = ~out.unhandled
           /\ active' = IF next THEN released \cup {Head(queue)} ELSE released
           /\ pending' = IF next THEN Tail(queue) ELSE queue
           /\ reqs' = [q \in Requests |->
                 LET mine == IF q # r THEN reqs[q]
                             ELSE IF out.unhandled
                                  THEN [reqs[r] EXCEPT !.pc = "crashed", !.settled = o]
                             ELSE IF again
                                  THEN [reqs[r] EXCEPT !.pc = "pending",
                                                       !.queries = @ + 1]
                             ELSE [reqs[r] EXCEPT !.pc = "done", !.settled = o,
                                                  !.res = out.res,
                                                  !.responses = ResponsesSent(o)]
                 IN  IF next /\ q = Head(queue)
                     THEN [mine EXCEPT !.pc = "active"] ELSE mine]
    /\ clock' = IF reqs[r].pc = "active" THEN clock + 1 ELSE clock
    /\ UNCHANGED <<dbState, nReq, peak, everUnhealthy, hello, clientVars>>

\* A GET /api/hello request arrives and is answered.
Hello ==
    /\ running
    /\ LET out == HelloHandler(dbState)
       IN  hello' = [res |-> out.res,
                     probes |-> hello.probes + out.probes,
                     dbAt |-> dbState]
    /\ UNCHANGED <<dbState, clock, running, reqs, nReq, pending, active, peak,
                   everUnhealthy, clientVars>>

\* The dependency changes state (it goes down, comes back, ...).
DbChange(s) ==
    /\ s \in DbStates
    /\ s # dbState
    /\ dbState' = s
    /\ everUnhealthy' = (everUnhealthy \/ s # "healthy")
    /\ UNCHANGED <<clock, running, reqs, nReq, pending, active, peak, hello,
                   clientVars>>

(***************************************************************************)
(* The client (public/app.js).                                              *)
(***************************************************************************)
Targets == {"hello", "db"}

\* The URL each target is loaded from (lines 26-31).
UrlOf(tg) == IF tg = "hello" THEN "/api/hello" ELSE "/db-check"

\* The text of the loading state (the source writes the three dots as one
\* ellipsis character).
LoadingText == "Loading..."

\* setStatus(node, status, text): both classes are removed, the class of
\* status is added, the text is set.
SetStatus(node, status, text) ==
    [cls |-> IF status = "success" THEN "success"
             ELSE IF status = "error" THEN "error" ELSE "none",
     text |-> text]

\* The reason phrase of an HTTP status code.
StatusText(code) ==
    CASE code = 200 -> "OK"
      [] code = 500 -> "Internal Server Error"
      [] code = 502 -> "Bad Gateway"
      [] OTHER -> ""

\* response.ok
ResponseOk(response) == response.code >= 200 /\ response.code <= 299

\* What fetch(url) settles with.
NoHttp == [code |-> 0, statusText |-> "", json |-> FALSE, body |-> [none |-> ""]]
FetchRejected(e) == [kind |-> "reject", error |-> e, response |-> NoHttp]
FetchFulfilled(code, json, body) ==
    [kind |-> "fulfil", error |-> NoError,
     response |-> [code |-> code, statusText |-> StatusText(code),
                   json |-> json, body |-> body]]

NetworkError == [name |-> "TypeError", message |-> "Failed to fetch"]
SyntaxError == [name |-> "SyntaxError",
                message |-> "Unexpected token '<', \"<html>\" is not valid JSON"]
HtmlBody == [html |-> "<html>"]

\* The responses the server gives to GET url.
ServerResponses(url) ==
    IF url = "/api/hello"
    THEN {HelloHandler(s).res : s \in DbStates}
    ELSE UNION {{DbCheckHandler(o).res : o \in ProbeOutcomes(s, 0)} : s \in DbStates}

\* The outcomes of fetch(url): the network fails, the server answers, or
\* something between the page and the server answers with a body that is not
\* JSON.
FetchOutcomes(url) ==
    {FetchRejected(NetworkError)}
    \cup {FetchFulfilled(res.code, TRUE, res.body) : res \in ServerResponses(url)}
    \cup {FetchFulfilled(200, FALSE, HtmlBody), FetchFulfilled(502, FALSE, HtmlBody)}

\* JSON.stringify(payload, null, 2) of a flat object of strings, the keys in
\* the order the server wrote them.
KeyOrder == <<"status", "message", "database", "serverTime">>

RECURSIVE PrettyLines(_, _)
PrettyLines(payload, keys) ==
    IF keys = <<>> THEN ""
    ELSE LET k == Head(keys)
             rest == PrettyLines(payload, Tail(keys))
         IN  IF k \in DOMAIN payload
             THEN "  \"" \o k \o "\": \"" \o payload[k] \o "\""
                  \o (IF rest = "" THEN "" ELSE ",\n" \o rest)
             ELSE rest

Pretty(payload) == "{\n" \o PrettyLines(payload, KeyOrder) \o "\n}"

\* Mutant of the catch block: the failure is logged and nothing is rendered.
FetchCatchSilent(node, error) ==
    [pc |-> "done", node |-> node, escaped |-> FALSE]

\* fetchJSON's catch block (lines 20-23).
FetchCatch(node, error) ==
    [pc |-> "done", node |-> SetStatus(node, "error", error.message),
     escaped |-> FALSE]

\* Mutant of fetchJSON: response.ok is not looked at.
AfterFetchNoOkCheck(node, outcome) ==
    IF outcome.kind = "reject" THEN FetchCatch(node, outcome.error)
    ELSE [pc |-> "parsing", node |-> node, escaped |-> FALSE]

\* fetchJSON from the point where fetch(url) has settled (lines 16-18).
AfterFetch(node, outcome) ==
    IF outcome.kind = "reject" THEN FetchCatch(node, outcome.error)
    ELSE IF ~ResponseOk(outcome.response)
    THEN FetchCatch(node, [name |-> "Error",
                           message |-> ToString(outcome.response.code) \o " "
                                       \o outcome.response.statusText])
    ELSE [pc |-> "parsing", node |-> node, escaped |-> FALSE]

\* fetchJSON from the point where response.json() has settled (lines 18-19).
AfterJson(node, response) ==
    IF ~response.json THEN FetchCatch(node, SyntaxError)
    ELSE [pc |-> "done", node |-> SetStatus(node, "success", Pretty(response.body)),
          escaped |-> FALSE]

\* What a call has rendered into its target at its end: nothing yet.
NoRender == [cls |-> "none", text |-> ""]

\* A fetchJSON invocation up to its first await (lines 14-16).
NewCall(tg, overlap) == [target |-> tg, url |-> UrlOf(tg), pc |-> "fetching",
                         response |-> NoHttp, overlap |-> overlap,
                         shown |-> NoRender]

\* The calls on target tg that have not run to their end.
Unsettled(tg) == {i \in 1..Len(calls) : calls[i].target = tg
                                       /\ calls[i].pc \in {"fetching", "parsing"}}

\* The page after its script has run: the two initial fetchJSON calls are
\* awaiting their fetch (lines 30-31).
ClientInit ==
    /\ nodes = [tg \in Targets |-> SetStatus([cls |-> "none", text |-> ""],
                                             "null", LoadingText)]
    /\ calls = <<NewCall("hello", FALSE), NewCall("db", FALSE)>>
    /\ escaped = FALSE

\* A click on the button of target tg (lines 26-27).
Click(tg) ==
    /\ tg \in Targets
    /\ Len(calls) < MaxCalls
    /\ nodes' = [nodes EXCEPT ![tg] = SetStatus(@, "null", LoadingText)]
    /\ calls' = Append(calls, NewCall(tg, Unsettled(tg) # {}))
    /\ UNCHANGED <<escaped, serverVars>>

\* The fetch of call i settles with o and fetchJSON runs to its next await or
\* to its end.
FetchSettles(i, o) ==
    /\ i \in 1..Len(calls)
    /\ calls[i].pc = "fetching"
    /\ o \in FetchOutcomes(calls[i].url)
    /\ LET tg == calls[i].target
           out == AfterFetch(nodes[tg], o)
       IN  /\ nodes' = [nodes EXCEPT ![tg] = out.node]
           /\ calls' = [calls EXCEPT ![i].pc = IF out.escaped THEN "threw" ELSE out.pc,
                                     ![i].response = o.response,
                                     ![i].shown = IF out.pc = "done" THEN out.node ELSE @]
           /\ escaped' = (escaped \/ out.escaped)
    /\ UNCHANGED serverVars

\* response.json() of call i settles and fetchJSON runs to its end.
JsonSettles(i) ==
    /\ i \in 1..Len(calls)
    /\ calls[i].pc = "parsing"
    /\ LET tg == calls[i].target
           out == AfterJson(nodes[tg], calls[i].response)
       IN  /\ nodes' = [nodes EXCEPT ![tg] = out.node]
           /\ calls' = [calls EXCEPT ![i].pc = IF out.escaped THEN "threw" ELSE out.pc,
                                     ![i].shown = IF out.pc = "done" THEN out.node ELSE @]
           /\ escaped' = (escaped \/ out.escaped)
    /\ UNCHANGED serverVars

(***************************************************************************)
(* The specifications.                                                     *)
(***************************************************************************)
Init == ServerInit /\ ClientInit

Next ==
    \/ Receive
    \/ \E r \in Requests : \E o \in OutcomesFor(r) : ProbeSettles(r, o)
    \/ Hello
    \/ \E s \in DbStates : DbChange(s)

Spec == Init /\ [][Next]_vars

ClientNext ==
    \/ \E tg \in Targets : Click(tg)
    \/ \E i \in 1..MaxCalls : \E o \in FetchOutcomes(UrlOf("hello")) \cup FetchOutcomes(UrlOf("db")) :
          FetchSettles(i, o)
    \/ \E i \in 1..MaxCalls : JsonSettles(i)

ClientSpec == Init /\ [][ClientNext]_vars

(***************************************************************************)
(* The envelope shapes of section 3 of the specification.                   *)
(***************************************************************************)
OkShape(body) ==
    /\ DOMAIN body = {"status", "database", "serverTime"}
    /\ body.status = "ok"
    /\ body.database # ""
    /\ body.serverTime # ""

ErrorShape(body) ==
    /\ DOMAIN body = {"status", "message"}
    /\ body.status = "error"
    /\ body.message # ""

\* The probe resolved with a first row that carries a server_time.
ProbeSucceeded(settled) ==
    /\ settled.kind = "resolve"
    /\ settled.rowsDefined
    /\ Len(settled.rows) >= 1
    /\ settled.rows[1].server_time.t = "date"

\* The probe resolved with something else.
ProbeMalformed(settled) ==
    settled.kind = "resolve" /\ ~ProbeSucceeded(settled)

ProbeFailed(settled) == settled.kind = "reject"

HelloBody == [message |-> Greeting]

(***************************************************************************)
(* The claims.                                                              *)
(***************************************************************************)

\* C1: every envelope GET /db-check returns has exactly one of the two
\* shapes: status "ok" with database and serverTime populated and no message,
\* or status "error" with message populated and no database or serverTime.
C1_ExactlyOneShape ==
    \A r \in Done : OkShape(reqs[r].res.body) \/ ErrorShape(reqs[r].res.body)

\* C2: a request whose probe succeeds with a row server_time = T is answered
\* 200 with {status: "ok", database: DB_NAME, serverTime: T}, T being the
\* value the dependency reported for that probe (sent as its ISO string).
C2_OkEnvelope ==
    \A r \in Done :
        ProbeSucceeded(reqs[r].settled) =>
            reqs[r].res = [code |-> 200,
                           body |-> [status |-> "ok",
                                     database |-> DB_NAME,
                                     serverTime |-> ToISOString(reqs[r].settled.rows[1].server_time.ms)]]

\* C2's case: two probes succeeded at different times of the dependency and
\* each request carries its own time.
C2_Witness ==
    \E r, q \in Done :
        /\ ProbeSucceeded(reqs[r].settled) /\ ProbeSucceeded(reqs[q].settled)
        /\ reqs[r].settled.rows[1].server_time.ms = 0
        /\ reqs[q].settled.rows[1].server_time.ms = 1
        /\ reqs[r].res.body.serverTime # reqs[q].res.body.serverTime

\* C3: a request whose probe rejects (the dependency is unreachable) is
\* answered 500 with status "error" and a message that is not empty.
C3_ErrorEnvelopeNonEmpty ==
    \A r \in Done :
        ProbeFailed(reqs[r].settled) =>
            /\ reqs[r].res.code = 500
            /\ reqs[r].res.body.status = "error"
            /\ "message" \in DOMAIN reqs[r].res.body
            /\ reqs[r].res.body.message # ""

\* C4: a failed probe is never fatal: once probes have failed (unreachable
\* dependency, authentication failure) the process is still running, takes
\* the next GET /db-check and answers GET /api/hello.
C4_FailureNotFatal ==
    (\E r \in Requests : ProbeFailed(reqs[r].settled)) =>
        /\ running
        /\ ENABLED Hello
        /\ nReq < MaxReq => ENABLED Receive
        /\ \A r \in Requests : reqs[r].pc # "crashed"

\* C4's case: one probe failed on authentication, the next on a refused
\* connection, and a third request and a hello request were answered after.
C4_Witness ==
    /\ peak = 1
    /\ nReq = 3
    /\ reqs[1].pc = "done" /\ reqs[1].settled.error = AuthFailed
    /\ reqs[2].pc = "done" /\ reqs[2].settled.error = ConnRefused
    /\ reqs[3].pc = "done"
    /\ hello.dbAt # "none"
    /\ running

\* C5: a probe that resolves with a malformed result is answered like an
\* unreachable dependency: 500 with the error envelope, never "ok".
C5_MalformedIsError ==
    \A r \in Done :
        ProbeMalformed(reqs[r].settled) =>
            /\ reqs[r].res.code = 500
            /\ ErrorShape(reqs[r].res.body)

\* C6: pool.query is issued exactly once for every GET /db-check request,
\* whether the probe succeeds or fails; a failed probe is answered without a
\* second probe.
C6_OneProbePerRequest ==
    \A r \in Requests :
        /\ reqs[r].pc = "none" => reqs[r].queries = 0
        /\ reqs[r].pc # "none" => reqs[r].queries = 1
        /\ ProbeFailed(reqs[r].settled) => reqs[r].pc = "done" /\ reqs[r].res.code = 500

\* C6's case: a request with a failed probe and a request with a successful
\* one have both been answered.
C6_Witness ==
    \E r, q \in Done :
        /\ ProbeFailed(reqs[r].settled) /\ reqs[r].queries = 1
        /\ ProbeSucceeded(reqs[q].settled) /\ reqs[q].queries = 1

\* C7: the envelope of a request depends on its own probe only: requests
\* whose probes settled alike are answered alike, a request whose probe
\* succeeds is answered "ok" whatever happened to the requests before it, and
\* a request whose probe fails is answered with the error envelope.
C7_Independent ==
    /\ \A r, q \in Done :
          reqs[r].settled = reqs[q].settled => reqs[r].res = reqs[q].res
    /\ \A r \in Done :
          ProbeSucceeded(reqs[r].settled) =>
              reqs[r].res.code = 200 /\ reqs[r].res.body.status = "ok"
    /\ \A r \in Done :
          ProbeFailed(reqs[r].settled) =>
              reqs[r].res.code = 500 /\ reqs[r].res.body.status = "error"

\* C7's case: the requests came one after the other, the first two failed
\* and the third, against the healthy dependency, was answered "ok".
C7_Witness ==
    /\ peak = 1
    /\ nReq = 3
    /\ Failed = {1, 2}
    /\ reqs[3].pc = "done" /\ reqs[3].res.body.status = "ok"

\* C8: K requests in flight together against a healthy dependency, with a
\* pool of at least K clients, are all answered "ok"; none is refused or
\* failed by the pool, in every interleaving.
C8_ConcurrentOk ==
    (~everUnhealthy /\ peak <= PoolMax) =>
        \A r \in Requests :
            /\ reqs[r].pc \notin {"refused", "pending", "crashed"}
            /\ r \in Done => /\ reqs[r].res.code = 200
                             /\ OkShape(reqs[r].res.body)

\* C8's case: as many requests as the pool has clients were in flight
\* together, the dependency was healthy throughout, and all were answered.
C8_Witness ==
    /\ ~everUnhealthy
    /\ peak = PoolMax
    /\ peak >= 2
    /\ Cardinality(Done) >= peak
    /\ \A r \in Done : reqs[r].res.body.status = "ok"

\* C9: GET /api/hello is answered 200 with {message: greeting} in every
\* state of the dependency and of the probes, issues no probe and has no
\* failure response.
C9_HelloIndependent ==
    /\ running => ENABLED Hello
    /\ hello.dbAt # "none" =>
          /\ hello.res = [code |-> 200, body |-> HelloBody]
          /\ hello.probes = 0

\* C9's case: hello was answered while the dependency was unreachable, with
\* a probe in flight and another one failed.
C9_Witness ==
    /\ hello.dbAt = "unreachable"
    /\ dbState = "unreachable"
    /\ InFlight # {}
    /\ Failed # {}

\* C10: every trigger of fetchJSON puts its target into the loading state,
\* and once every call on a target has settled (fulfilled with any status,
\* rejected, or with a body that is not JSON) the target shows success or
\* error, not loading; no exception leaves fetchJSON.
C10_NeverLeftLoading ==
    /\ [](/\ ~escaped
          /\ \A i \in 1..Len(calls) : calls[i].pc \in {"fetching", "parsing", "done"}
          /\ \A tg \in Targets :
                Unsettled(tg) = {} =>
                    /\ nodes[tg].cls \in {"success", "error"}
                    /\ nodes[tg].text # LoadingText)
    /\ [][Len(calls') > Len(calls) =>
             nodes'[calls'[Len(calls')].target] = [cls |-> "none", text |-> LoadingText]]_vars

\* C10's case: a click came while an earlier call on the same target was
\* unsettled, both have settled, one of them by a failure, and the target
\* shows the error.
C10_Witness ==
    \E i \in 1..Len(calls) :
        /\ calls[i].overlap
        /\ Unsettled(calls[i].target) = {}
        /\ nodes[calls[i].target].cls = "error"
        /\ nodes[calls[i].target].text = NetworkError.message

\* The calls that have run to their end.
Settled == {i \in 1..Len(calls) : calls[i].pc = "done"}

\* The response of a call is the error envelope of GET /db-check.
IsErrorEnvelope(response) ==
    /\ response.code = 500
    /\ response.json
    /\ DOMAIN response.body = {"status", "message"}
    /\ response.body.status = "error"

\* What C11 says of every rendering but that of the error envelope: a
\* response with an ok status and a JSON body is shown as success with the
\* pretty-printed payload, a network failure as error with its message, the
\* success state is kept for ok responses, and a target whose calls have all
\* settled shows what one of them rendered.
RendersOutcome ==
    /\ \A i \in Settled :
          LET response == calls[i].response
              shown == calls[i].shown
          IN  /\ (ResponseOk(response) /\ response.json) =>
                     shown = [cls |-> "success", text |-> Pretty(response.body)]
              /\ response = NoHttp =>
                     shown = [cls |-> "error", text |-> NetworkError.message]
              /\ shown.cls = "success" => ResponseOk(response)
              /\ shown.cls \in {"success", "error"}
    /\ \A tg \in Targets :
          Unsettled(tg) = {} =>
              \E i \in Settled : calls[i].target = tg /\ nodes[tg] = calls[i].shown

\* C11 as stated: the client renders the envelope it receives; for the error
\* envelope (HTTP 500, {status: "error", message: M}) the target gets the
\* error state and its text is the message M of the envelope.
C11_RendersEnvelopeMessage ==
    /\ RendersOutcome
    /\ \A i \in Settled :
          IsErrorEnvelope(calls[i].response) =>
              calls[i].shown = [cls |-> "error",
                                text |-> calls[i].response.body.message]

\* C11 as amended: for the error envelope the target gets the error state and
\* its text is the status line of the response, "500 Internal Server Error";
\* the body of a response that is not ok is never read.
C11_RendersStatusLine ==
    /\ RendersOutcome
    /\ \A i \in Settled :
          IsErrorEnvelope(calls[i].response) =>
              calls[i].shown = [cls |-> "error",
                                text |-> "500 Internal Server Error"]

\* C11's case: the hello call was rendered as success with its pretty-printed
\* payload, one call of /db-check received the error envelope with a message
\* and another one failed on the network.
C11_Witness ==
    \E i, j, k \in Settled :
        /\ calls[i].shown = [cls |-> "success",
                             text |-> "{\n  \"message\": \"Hello World from Dockerized Express!\"\n}"]
        /\ IsErrorEnvelope(calls[j].response)
        /\ calls[j].response.body.message = ConnRefused.message
        /\ calls[j].shown.text = "500 Internal Server Error"
        /\ calls[k].response = NoHttp
        /\ calls[k].shown = [cls |-> "error", text |-> "Failed to fetch"]
        /\ nodes["db"].cls = "error"

\* The time the dependency reported to request r.
TimeOf(r) == reqs[r].settled.rows[1].server_time.ms

\* Request r was answered with the envelope of its own probe.
OwnEnvelope(r) ==
    /\ ProbeSucceeded(reqs[r].settled) =>
          reqs[r].res = [code |-> 200,
                         body |-> [status |-> "ok", database |-> DB_NAME,
                                   serverTime |-> ToISOString(TimeOf(r))]]
    /\ ProbeFailed(reqs[r].settled) =>
          reqs[r].res = [code |-> 500,
                         body |-> [status |-> "error",
                                   message |-> reqs[r].settled.error.message]]

\* C12: requests are not ordered: the handler is suspended at its probe and
\* nowhere else, a request B that arrived after A may be answered before A,
\* and whichever of the two is answered first, each gets the envelope of its
\* own probe.
C12_NoOrdering ==
    /\ \A r \in Requests :
          /\ reqs[r].pc \in {"none", "pending", "active", "done"}
          /\ reqs[r].pc \in {"pending", "active"} =>
                reqs[r].settled = Pending /\ reqs[r].res = NoResponse
    /\ \A a, b \in Requests :
          (a < b /\ b \in Done) =>
              /\ OwnEnvelope(b)
              /\ a \in Done => OwnEnvelope(a)

\* C12's case: request 2 arrived after request 1 and its probe was answered
\* first (the dependency's clock read 0 for it and 1 for request 1), so it
\* was answered first; both got the ok envelope with their own time.
C12_Witness ==
    /\ {1, 2} \subseteq Done
    /\ ProbeSucceeded(reqs[1].settled) /\ ProbeSucceeded(reqs[2].settled)
    /\ TimeOf(2) = 0 /\ TimeOf(1) = 1
    /\ reqs[2].res.body.serverTime = ToISOString(0)
    /\ reqs[1].res.body.serverTime = ToISOString(1)

\* C13: a request is answered at most once and only after its own probe has
\* settled: never with both the ok and the 500 response (also when reading
\* the result throws inside the try block), and with nothing at all while its
\* probe is pending.
C13_AnsweredOnceAfterProbe ==
    \A r \in Requests :
        /\ reqs[r].responses <= 1
        /\ reqs[r].pc \in {"none", "pending", "active"} =>
              /\ reqs[r].responses = 0
              /\ reqs[r].res = NoResponse
              /\ reqs[r].settled = Pending
        /\ reqs[r].pc = "done" =>
              /\ reqs[r].responses = 1
              /\ reqs[r].settled.kind \in {"resolve", "reject"}
              /\ reqs[r].res.code \in {200, 500}
              /\ reqs[r].res.code = 200 => ProbeSucceeded(reqs[r].settled)
                                            \/ ProbeMalformed(reqs[r].settled)
        /\ reqs[r].res # NoResponse => reqs[r].pc = "done"

\* C13's case: one request was answered ok, one was answered 500 because
\* reading the result threw inside the try block, each once, and a third one,
\* whose probe is still pending, has no response.
C13_Witness ==
    \E r, q, p \in Requests :
        /\ reqs[r].pc = "done" /\ reqs[r].res.code = 200 /\ reqs[r].responses = 1
        /\ reqs[q].pc = "done" /\ reqs[q].settled = Resolved(<<>>)
        /\ reqs[q].res.code = 500 /\ reqs[q].responses = 1
        /\ reqs[p].pc = "active" /\ reqs[p].res = NoResponse

====
